---- MODULE Spec2Model ----
(***************************************************************************)
(* ThoughtCaptcha backend: the request handlers of app/main.py, the CRUD   *)
(* functions of app/crud.py they call, the per-request session of          *)
(* app/database.py (commit on return, rollback on exception) and the       *)
(* question generator of app/openrouter_client.py.                         *)
(*                                                                         *)
(* The store is PostgreSQL at its default isolation level (read            *)
(* committed): a statement sees the rows committed when it starts plus the *)
(* session's own writes; a row written by a session stays locked until the *)
(* session commits or rolls back; a second insert of a primary key waits   *)
(* for the first and fails when the first commits.                         *)
(*                                                                         *)
(* Optional values (Optional[...] of schemas.py, nullable columns, a       *)
(* query's .first()) are sequences of length at most one: None is << >>    *)
(* and a value v is << v >>.                                               *)
(***************************************************************************)
EXTENDS Integers, Sequences, FiniteSets, TLC

\* ------------------------------------------------------------------ bounds

\* Assignments that are ever created (ids 1..MaxAssign).
MaxAssign == 2

\* Submissions that are ever created (ids 1..MaxSub).
MaxSub == 1

\* Longest text the remote model generates, in characters.
MaxTextLen == 2

\* The API calls that can be in flight at once (one session each).
Requests == {"r1", "r2"}

\* prompt_text values a teacher sends.
PromptTexts == {"p1", "p2"}

\* original_content values a student sends.
Contents == {"c1"}

\* student_response values a student sends.
Responses == {"a1", "a2"}

\* ------------------------------------------------------------ option type

None == << >>

Some(v) == << v >>

IsSome(o) == o # << >>

Get(o) == o[1]

\* ------------------------------------------------------- program constants

\* The stored default of SystemPrompt.prompt_text.
DEFAULT_SYSTEM_PROMPT == "default system prompt"

\* A system prompt text a teacher sends.
CustomPrompts == {"custom prompt"}

\* The fixed id of the only SystemPrompt row.
PromptId == 1

\* ---------------------------------------------------------------- state

VARIABLES
    started,         \* on_startup has run
    assignments,     \* committed rows of table assignments: id -> row
    submissions,     \* committed rows of table submissions: id -> row
    system_prompts,  \* committed rows of table system_prompts: id -> row
    asgSeq,          \* last value of the assignments id sequence
    subSeq,          \* last value of the submissions id sequence
    pc,              \* per call: the statement it is about to run
    call,            \* per call: the endpoint and its request body
    sess,            \* per call: the session (pending writes, loaded object)
    result,          \* per call: what the endpoint answered
    gen,             \* the question generator's invocation
    invoked,         \* history: per submission id, how often generate_question
                     \* has called the generator for it (counted up to 2)
    answered         \* history: per submission id, the answer of the last
                     \* generate_question call that ended

dbvars == << assignments, submissions, system_prompts >>

vars == << started, assignments, submissions, system_prompts, asgSeq, subSeq,
           pc, call, sess, result, gen, invoked, answered >>

\* ------------------------------------------------------------- the store

Empty == [k \in {} |-> None]

\* f with the rows of g written over it.
Overlay(f, g) ==
    [k \in DOMAIN f \cup DOMAIN g |-> IF k \in DOMAIN g THEN g[k] ELSE f[k]]

Put(f, k, v) == Overlay(f, [x \in {k} |-> v])

Committed(t) ==
    CASE t = "asg" -> assignments
      [] t = "sub" -> submissions
      [] t = "prm" -> system_prompts

\* A statement that sees also what the other sessions have not committed.
Visible_uncommitted(r, t) ==
    Overlay(Overlay(Committed(t),
                    sess[CHOOSE q \in Requests : q # r][t]),
            sess[r][t])

\* What a statement of call r sees of table t.
Visible(r, t) == Overlay(Committed(t), sess[r][t])

\* Row k of table t is written, and so locked, by a session other than r's.
LockedByOther(r, t, k) == \E q \in Requests \ {r} : k \in DOMAIN sess[q][t]

NoSession ==
    [asg |-> Empty, sub |-> Empty, prm |-> Empty,
     id |-> 0, obj |-> None, new |-> None, targets |-> {}, ret |-> None,
     args |-> None]

NoCall ==
    [op |-> "none", id |-> 0, text |-> None, cur |-> None, aid |-> None,
     skip |-> 0, limit |-> 0]

NoResult == [status |-> "none", value |-> None]

NoGen ==
    [pc |-> "off", key |-> "", content |-> "", system_prompt |-> "",
     sent |-> 0, outcome |-> None, ret |-> None, raised |-> None]

\* --------------------------------------------------------------- session

\* get_db without its rollback: the session is committed however the endpoint
\* ended.
get_db_always_commits(r, raised) ==
    [asg |-> Overlay(assignments, sess[r].asg),
     sub |-> Overlay(submissions, sess[r].sub),
     prm |-> Overlay(system_prompts, sess[r].prm)]

\* What the store holds once the session of call r ends: the session's writes
\* when the endpoint returned, nothing of them when it raised.
get_db(r, raised) ==
    IF raised
    THEN [asg |-> assignments, sub |-> submissions, prm |-> system_prompts]
    ELSE [asg |-> Overlay(assignments, sess[r].asg),
          sub |-> Overlay(submissions, sess[r].sub),
          prm |-> Overlay(system_prompts, sess[r].prm)]

Idle(r) == pc[r] \in {"idle", "done"}

\* A call arrives: its session is opened, empty.
Start(r, c, first) ==
    /\ started
    /\ Idle(r)
    /\ call' = [call EXCEPT ![r] = c]
    /\ pc' = [pc EXCEPT ![r] = first]
    /\ sess' = [sess EXCEPT ![r] = [NoSession EXCEPT !.id = c.id]]
    /\ result' = [result EXCEPT ![r] = NoResult]
    /\ UNCHANGED << started, dbvars, asgSeq, subSeq, gen, invoked, answered >>

\* A call ends: the session is committed or rolled back and closed, and the
\* endpoint's answer goes out.
Finish(r, raised, status, value) ==
    LET db == get_db(r, raised) IN
    /\ assignments' = db.asg
    /\ submissions' = db.sub
    /\ system_prompts' = db.prm
    /\ sess' = [sess EXCEPT ![r] = NoSession]
    /\ pc' = [pc EXCEPT ![r] = "done"]
    /\ result' = [result EXCEPT ![r] = [status |-> status, value |-> value]]
    /\ answered' = IF call[r].op = "generate_question"
                   THEN [answered EXCEPT ![call[r].id] =
                            Some([status |-> status, value |-> value])]
                   ELSE answered

\* The call goes on to its next statement with its session changed to s.
Goto(r, next, s) ==
    /\ pc' = [pc EXCEPT ![r] = next]
    /\ sess' = [sess EXCEPT ![r] = s]
    /\ UNCHANGED << dbvars, result, answered >>

\* The endpoint returned: the session commits.
Commit(r) ==
    /\ pc[r] = "commit"
    /\ Finish(r, FALSE, "ok", sess[r].ret)
    /\ UNCHANGED << started, asgSeq, subSeq, call, gen, invoked >>

\* The unit of work's flush of the loaded object of table t: an UPDATE of the
\* attributes whose value differs from the loaded one, none when nothing
\* differs, then the refresh that reloads the object.  The UPDATE waits while
\* another session holds the row.
FlushObject(r, t, next) ==
    LET id == sess[r].id
        base == Get(sess[r].obj)
        want == Get(sess[r].new)
        latest == Visible(r, t)[id]
        row == [f \in DOMAIN latest |->
                   IF want[f] # base[f] THEN want[f] ELSE latest[f]]
    IN  IF want = base
        THEN Goto(r, next, [sess[r] EXCEPT !.obj = Some(latest),
                                          !.new = Some(latest),
                                          !.ret = Some(latest)])
        ELSE /\ ~LockedByOther(r, t, id)
             /\ Goto(r, next, [sess[r] EXCEPT ![t] = Put(@, id, row),
                                              !.obj = Some(row),
                                              !.new = Some(row),
                                              !.ret = Some(row)])

\* ------------------------------------------------------------ assignments

\* A create call arrives, its prompt_text one of texts.
BeginCreateAssignmentOf(r, texts) ==
    /\ asgSeq + Cardinality({q \in Requests : pc[q] = "ca_insert"}) < MaxAssign
    /\ \E p \in texts, c \in BOOLEAN :
         Start(r, [NoCall EXCEPT !.op = "create_assignment",
                                 !.text = Some(p), !.cur = Some(c)],
               "ca_insert")

BeginCreateAssignment(r) == BeginCreateAssignmentOf(r, PromptTexts)

BeginUpdateAssignment(r) ==
    \E id \in 1..MaxAssign, t \in {None} \cup {Some(p) : p \in PromptTexts},
       c \in {None, Some(TRUE), Some(FALSE)} :
         Start(r, [NoCall EXCEPT !.op = "update_assignment", !.id = id,
                                 !.text = t, !.cur = c],
               "ua_get")

BeginSetCurrentAssignment(r) ==
    \E id \in 1..MaxAssign :
         Start(r, [NoCall EXCEPT !.op = "set_current_assignment", !.id = id],
               "sc_demote")

\* INSERT of the new assignment (flush) and its reload (refresh).
create_assignment(r) ==
    /\ pc[r] = "ca_insert"
    /\ LET id == asgSeq + 1
           row == [prompt_text |-> Get(call[r].text),
                   is_current |-> Get(call[r].cur)]
       IN  /\ asgSeq' = id
           /\ Goto(r, IF row.is_current THEN "sc_demote" ELSE "commit",
                   [sess[r] EXCEPT !.asg = Put(@, id, row), !.id = id,
                                   !.obj = Some(row), !.new = Some(row),
                                   !.ret = Some(row)])
    /\ UNCHANGED << started, subSeq, call, gen, invoked >>

\* update_assignment taking an is_current that is not given as false.
update_assignment_whole(r) ==
    /\ pc[r] = "ua_get"
    /\ LET vis == Visible(r, "asg")
           id == call[r].id
       IN  IF id \notin DOMAIN vis
           THEN Finish(r, TRUE, "NotFound", None)
           ELSE LET a == [vis[id] EXCEPT
                            !.prompt_text = IF IsSome(call[r].text)
                                            THEN Get(call[r].text) ELSE @]
                    b == [a EXCEPT
                            !.is_current = IF IsSome(call[r].cur)
                                           THEN Get(call[r].cur) ELSE FALSE]
                IN  Goto(r, IF call[r].cur = Some(TRUE) THEN "sc_demote"
                                                       ELSE "ua_flush",
                         [sess[r] EXCEPT !.obj = Some(vis[id]),
                                         !.new = Some(b)])
    /\ UNCHANGED << started, asgSeq, subSeq, call, gen, invoked >>

\* update_assignment running the demotion of set_current_assignment before
\* it looks the assignment up.
update_assignment_demotes_first(r) ==
    /\ pc[r] = "ua_get"
    /\ LET vis == Visible(r, "asg")
           id == call[r].id
       IN  IF id \notin DOMAIN vis
           THEN IF call[r].cur = Some(TRUE)
                THEN Goto(r, "sc_demote", sess[r])
                ELSE Finish(r, TRUE, "NotFound", None)
           ELSE LET a == [vis[id] EXCEPT
                            !.prompt_text = IF IsSome(call[r].text)
                                            THEN Get(call[r].text) ELSE @]
                    b == [a EXCEPT
                            !.is_current = IF IsSome(call[r].cur)
                                           THEN Get(call[r].cur) ELSE @]
                IN  Goto(r, IF call[r].cur = Some(TRUE) THEN "sc_demote"
                                                       ELSE "ua_flush",
                         [sess[r] EXCEPT !.obj = Some(vis[id]),
                                         !.new = Some(b)])
    /\ UNCHANGED << started, asgSeq, subSeq, call, gen, invoked >>

\* SELECT of the assignment to update; its attributes are set as given.
update_assignment(r) ==
    /\ pc[r] = "ua_get"
    /\ LET vis == Visible(r, "asg")
           id == call[r].id
       IN  IF id \notin DOMAIN vis
           THEN Finish(r, TRUE, "NotFound", None)
           ELSE LET a == [vis[id] EXCEPT
                            !.prompt_text = IF IsSome(call[r].text)
                                            THEN Get(call[r].text) ELSE @]
                    b == [a EXCEPT
                            !.is_current = IF IsSome(call[r].cur)
                                           THEN Get(call[r].cur) ELSE @]
                IN  Goto(r, IF call[r].cur = Some(TRUE) THEN "sc_demote"
                                                       ELSE "ua_flush",
                         [sess[r] EXCEPT !.obj = Some(vis[id]),
                                         !.new = Some(b)])
    /\ UNCHANGED << started, asgSeq, subSeq, call, gen, invoked >>

\* The flush and refresh that end update_assignment.
update_assignment_flush(r) ==
    /\ pc[r] = "ua_flush"
    /\ FlushObject(r, "asg", "commit")
    /\ UNCHANGED << started, asgSeq, subSeq, call, gen, invoked >>

\* set_current_assignment without its bulk UPDATE.
DemoteTargets_none(r) == {}

\* The bulk UPDATE narrowed to the rows it sees as current.
DemoteTargets_current(r) ==
    {k \in DOMAIN Visible(r, "asg") \ {sess[r].id} :
        Visible(r, "asg")[k].is_current = TRUE}

\* The rows the statement UPDATE assignments SET is_current = false
\* WHERE id != :id changes: those visible as the statement starts.
DemoteTargets(r) == DOMAIN Visible(r, "asg") \ {sess[r].id}

\* The bulk UPDATE of set_current_assignment starts.
set_current_assignment_demote(r) ==
    /\ pc[r] = "sc_demote"
    /\ LET ts == DemoteTargets(r)
       IN  Goto(r, IF ts = {} THEN "sc_get" ELSE "sc_rows",
                [sess[r] EXCEPT !.targets = ts])
    /\ UNCHANGED << started, asgSeq, subSeq, call, gen, invoked >>

\* The bulk UPDATE writes one of its rows, in the latest committed version,
\* and keeps it locked; it waits while another session holds the row.
set_current_assignment_demote_row(r) ==
    /\ pc[r] = "sc_rows"
    /\ \E k \in sess[r].targets :
         /\ ~LockedByOther(r, "asg", k)
         /\ LET row == [Visible(r, "asg")[k] EXCEPT !.is_current = FALSE]
                rest == sess[r].targets \ {k}
            IN  Goto(r, IF rest = {} THEN "sc_get" ELSE "sc_rows",
                     [sess[r] EXCEPT !.asg = Put(@, k, row),
                                     !.targets = rest])
    /\ UNCHANGED << started, asgSeq, subSeq, call, gen, invoked >>

\* set_current_assignment without its is_current = True.
set_current_assignment_get_unset(r) ==
    /\ pc[r] = "sc_get"
    /\ LET vis == Visible(r, "asg")
           id == sess[r].id
       IN  IF id \notin DOMAIN vis
           THEN Finish(r, TRUE, "NotFound", None)
           ELSE Goto(r, "sc_flush",
                     [sess[r] EXCEPT
                        !.obj = Some(IF IsSome(@) THEN Get(@) ELSE vis[id]),
                        !.new = Some(IF IsSome(@) THEN Get(@) ELSE vis[id])])
    /\ UNCHANGED << started, asgSeq, subSeq, call, gen, invoked >>

\* get_assignment(id) after the demotion; is_current = True on what it finds.
\* An object the session has loaded already keeps its loaded attributes.
set_current_assignment_get(r) ==
    /\ pc[r] = "sc_get"
    /\ LET vis == Visible(r, "asg")
           id == sess[r].id
       IN  IF id \notin DOMAIN vis
           THEN Finish(r, TRUE, "NotFound", None)
           ELSE LET base == IF IsSome(sess[r].obj) THEN Get(sess[r].obj)
                                                   ELSE vis[id]
                    cur == IF IsSome(sess[r].new) THEN Get(sess[r].new)
                                                  ELSE vis[id]
                IN  Goto(r, "sc_flush",
                         [sess[r] EXCEPT
                            !.obj = Some(base),
                            !.new = Some([cur EXCEPT !.is_current = TRUE])])
    /\ UNCHANGED << started, asgSeq, subSeq, call, gen, invoked >>

\* The flush and refresh that end set_current_assignment.
set_current_assignment_flush(r) ==
    /\ pc[r] = "sc_flush"
    /\ FlushObject(r, "asg", "commit")
    /\ UNCHANGED << started, asgSeq, subSeq, call, gen, invoked >>

BeginReadCurrentAssignment(r) ==
    Start(r, [NoCall EXCEPT !.op = "read_current_assignment"], "gc_select")

\* The ids get_current_assignment's query matches; .first() takes one of them.
get_current_assignment(r) ==
    {k \in DOMAIN Visible(r, "asg") : Visible(r, "asg")[k].is_current = TRUE}

\* read_current_assignment: the assignment get_current_assignment returns, with
\* its id, or 404 when it returns none.
read_current_assignment(r) ==
    /\ pc[r] = "gc_select"
    /\ LET cur == get_current_assignment(r)
       IN  IF cur = {}
           THEN Finish(r, TRUE, "NotFound", None)
           ELSE \E k \in cur :
                  Goto(r, "commit",
                       [sess[r] EXCEPT
                          !.ret = Some([id |-> k,
                                        prompt_text |->
                                           Visible(r, "asg")[k].prompt_text,
                                        is_current |->
                                           Visible(r, "asg")[k].is_current])])
    /\ UNCHANGED << started, asgSeq, subSeq, call, gen, invoked >>

\* skip and limit values a reader sends; they default to 0 and 100.
Skips == {0, 1}

Limits == {1, 100}

BeginReadAssignments(r) ==
    \E sk \in Skips, li \in Limits :
         Start(r, [NoCall EXCEPT !.op = "read_assignments", !.skip = sk,
                                 !.limit = li],
               "gl_select")

\* The ids S, newest first: an assignment created later has the larger id.
RECURSIVE NewestFirst(_)
NewestFirst(S) ==
    IF S = {} THEN << >>
    ELSE LET m == CHOOSE x \in S : \A y \in S : y <= x
         IN  << m >> \o NewestFirst(S \ {m})

\* get_assignments without its offset.
get_assignments_unskipped(r, skip, limit) ==
    LET vis == Visible(r, "asg")
        ids == NewestFirst(DOMAIN vis)
        page == SubSeq(ids, 1, IF limit < Len(ids) THEN limit ELSE Len(ids))
    IN  [i \in 1..Len(page) |->
           [id |-> page[i], prompt_text |-> vis[page[i]].prompt_text,
            is_current |-> vis[page[i]].is_current]]

\* get_assignments: the assignments, newest first, from offset skip, at most
\* limit of them, each with its id.
get_assignments(r, skip, limit) ==
    LET vis == Visible(r, "asg")
        ids == NewestFirst(DOMAIN vis)
        last == IF skip + limit < Len(ids) THEN skip + limit ELSE Len(ids)
        page == SubSeq(ids, skip + 1, last)
    IN  [i \in 1..Len(page) |->
           [id |-> page[i], prompt_text |-> vis[page[i]].prompt_text,
            is_current |-> vis[page[i]].is_current]]

\* read_assignments: what get_assignments returns.
read_assignments(r) ==
    /\ pc[r] = "gl_select"
    /\ Goto(r, "commit",
            [sess[r] EXCEPT
               !.ret = Some(get_assignments(r, call[r].skip, call[r].limit))])
    /\ UNCHANGED << started, asgSeq, subSeq, call, gen, invoked >>

\* The statement call r is about to run waits for a row lock that another
\* session holds: a row of the bulk UPDATE, or the row its flush updates.
WaitsForLock(r) ==
    \/ /\ pc[r] = "sc_rows"
       /\ \E k \in sess[r].targets : LockedByOther(r, "asg", k)
    \/ /\ pc[r] \in {"sc_flush", "ua_flush"}
       /\ sess[r].new # sess[r].obj
       /\ LockedByOther(r, "asg", sess[r].id)

\* Two sessions wait for each other's row locks: the database detects the
\* deadlock and fails the statement of one of them; its call raises and its
\* session is rolled back.
deadlock_detected(r) ==
    /\ WaitsForLock(r)
    /\ \E q \in Requests \ {r} : WaitsForLock(q)
    /\ Finish(r, TRUE, "DeadlockDetected", None)
    /\ UNCHANGED << started, asgSeq, subSeq, call, gen, invoked >>

\* ------------------------------------------------------------ submissions

\* A submit call arrives, while fewer than n submission ids are drawn.
BeginSubmitAssignmentUpTo(r, n) ==
    /\ subSeq + Cardinality({q \in Requests : pc[q] \in {"sa_current", "sa_insert"}})
         < n
    /\ \E c \in Contents, a \in {None} \cup {Some(k) : k \in 1..MaxAssign} :
         Start(r, [NoCall EXCEPT !.op = "submit_assignment",
                                 !.text = Some(c), !.aid = a],
               IF a = None THEN "sa_current" ELSE "sa_insert")

BeginSubmitAssignment(r) == BeginSubmitAssignmentUpTo(r, MaxSub)

BeginReadSubmissions(r) ==
    \E sk \in Skips, li \in Limits :
         Start(r, [NoCall EXCEPT !.op = "read_submissions", !.skip = sk,
                                 !.limit = li],
               "sl_select")

\* get_all_submissions: the submissions, newest first, from offset skip, at
\* most limit of them, each with its id.
get_all_submissions(r, skip, limit) ==
    LET vis == Visible(r, "sub")
        ids == NewestFirst(DOMAIN vis)
        last == IF skip + limit < Len(ids) THEN skip + limit ELSE Len(ids)
        page == SubSeq(ids, skip + 1, last)
    IN  [i \in 1..Len(page) |->
           [id |-> page[i],
            original_content |-> vis[page[i]].original_content,
            assignment_id |-> vis[page[i]].assignment_id,
            generated_question |-> vis[page[i]].generated_question,
            student_response |-> vis[page[i]].student_response]]

\* read_submissions: what get_all_submissions returns.
read_submissions(r) ==
    /\ pc[r] = "sl_select"
    /\ Goto(r, "commit",
            [sess[r] EXCEPT
               !.ret = Some(get_all_submissions(r, call[r].skip,
                                                call[r].limit))])
    /\ UNCHANGED << started, asgSeq, subSeq, call, gen, invoked >>

BeginGenerateQuestion(r) ==
    \E id \in 1..MaxSub :
         Start(r, [NoCall EXCEPT !.op = "generate_question", !.id = id],
               "gq_get")

BeginVerifyResponse(r) ==
    \E id \in 1..MaxSub, t \in Responses :
         Start(r, [NoCall EXCEPT !.op = "verify_response", !.id = id,
                                 !.text = Some(t)],
               "vr_get")

\* submit_assignment that does not look for the current assignment.
submit_assignment_unlinked(r) ==
    /\ pc[r] = "sa_current"
    /\ Goto(r, "sa_insert", sess[r])
    /\ UNCHANGED << started, asgSeq, subSeq, call, gen, invoked >>

\* submit_assignment without assignment_id: the request's assignment_id
\* becomes the current assignment's id, when there is one.
submit_assignment(r) ==
    /\ pc[r] = "sa_current"
    /\ LET cur == get_current_assignment(r)
       IN  IF cur = {}
           THEN UNCHANGED call
           ELSE \E k \in cur : call' = [call EXCEPT ![r].aid = Some(k)]
    /\ Goto(r, "sa_insert", sess[r])
    /\ UNCHANGED << started, asgSeq, subSeq, gen, invoked >>

\* create_submission on a table without the foreign key on assignment_id.
create_submission_unchecked(r) ==
    /\ pc[r] = "sa_insert"
    /\ LET id == subSeq + 1
           row == [original_content |-> Get(call[r].text),
                   assignment_id |-> call[r].aid,
                   generated_question |-> None,
                   student_response |-> None]
       IN  /\ subSeq' = id
           /\ Goto(r, "commit",
                   [sess[r] EXCEPT !.sub = Put(@, id, row), !.id = id,
                                   !.obj = Some(row), !.new = Some(row),
                                   !.ret = Some(row)])
    /\ UNCHANGED << started, asgSeq, call, gen, invoked >>

\* INSERT of the submission (flush) and its reload.  The id is drawn from the
\* sequence before the foreign key on assignment_id is checked.
create_submission(r) ==
    /\ pc[r] = "sa_insert"
    /\ LET id == subSeq + 1
           row == [original_content |-> Get(call[r].text),
                   assignment_id |-> call[r].aid,
                   generated_question |-> None,
                   student_response |-> None]
       IN  /\ subSeq' = id
           /\ IF IsSome(call[r].aid)
                 /\ Get(call[r].aid) \notin DOMAIN Visible(r, "asg")
              THEN Finish(r, TRUE, "IntegrityError", None)
              ELSE Goto(r, "commit",
                        [sess[r] EXCEPT !.sub = Put(@, id, row), !.id = id,
                                        !.obj = Some(row), !.new = Some(row),
                                        !.ret = Some(row)])
    /\ UNCHANGED << started, asgSeq, call, gen, invoked >>

\* update_submission_response that keeps a response already stored.
update_submission_response_keep(r) ==
    /\ pc[r] = "vr_get"
    /\ LET vis == Visible(r, "sub")
           id == call[r].id
       IN  IF id \notin DOMAIN vis
           THEN Finish(r, TRUE, "NotFound", None)
           ELSE Goto(r, "vr_flush",
                     [sess[r] EXCEPT
                        !.obj = Some(vis[id]),
                        !.new = Some([vis[id] EXCEPT
                                        !.student_response =
                                           IF IsSome(@) THEN @
                                                        ELSE call[r].text])])
    /\ UNCHANGED << started, asgSeq, subSeq, call, gen, invoked >>

\* update_submission_response: SELECT of the submission, its student_response
\* set to the text sent.
update_submission_response(r) ==
    /\ pc[r] = "vr_get"
    /\ LET vis == Visible(r, "sub")
           id == call[r].id
       IN  IF id \notin DOMAIN vis
           THEN Finish(r, TRUE, "NotFound", None)
           ELSE Goto(r, "vr_flush",
                     [sess[r] EXCEPT
                        !.obj = Some(vis[id]),
                        !.new = Some([vis[id] EXCEPT
                                        !.student_response = call[r].text])])
    /\ UNCHANGED << started, asgSeq, subSeq, call, gen, invoked >>

\* The flush of update_submission_response writing also an assignment_id of
\* none.
update_submission_response_flush_unlinks(r) ==
    /\ pc[r] = "vr_flush"
    /\ ~LockedByOther(r, "sub", sess[r].id)
    /\ LET row == [Get(sess[r].new) EXCEPT !.assignment_id = None]
       IN  Goto(r, "commit", [sess[r] EXCEPT !.sub = Put(@, sess[r].id, row),
                                            !.obj = Some(row), !.new = Some(row),
                                            !.ret = Some(row)])
    /\ UNCHANGED << started, asgSeq, subSeq, call, gen, invoked >>

\* The flush and refresh that end update_submission_response.
update_submission_response_flush(r) ==
    /\ pc[r] = "vr_flush"
    /\ FlushObject(r, "sub", "commit")
    /\ UNCHANGED << started, asgSeq, subSeq, call, gen, invoked >>

\* ---------------------------------------------------------- system prompt

BeginReadSystemPrompt(r) ==
    Start(r, [NoCall EXCEPT !.op = "read_system_prompt", !.id = PromptId],
          "gp_select")

BeginUpdateSystemPrompt(r) ==
    \E t \in CustomPrompts \cup {DEFAULT_SYSTEM_PROMPT} :
         Start(r, [NoCall EXCEPT !.op = "update_system_prompt",
                                 !.id = PromptId, !.text = Some(t)],
               "gp_select")

\* Where a call goes once get_system_prompt has returned row, and with what.
AfterPrompt(r, s, row) ==
    CASE call[r].op = "read_system_prompt" ->
            Goto(r, "commit", [s EXCEPT !.ret = Some(row)])
      [] call[r].op = "update_system_prompt" ->
            Goto(r, "up_flush",
                 [s EXCEPT !.obj = Some(row),
                           !.new = Some([row EXCEPT
                                           !.prompt_text = Get(call[r].text)])])
      [] call[r].op = "generate_question" ->
            Goto(r, "gq_call",
                 [s EXCEPT !.args = Some([Get(@) EXCEPT
                                            !.system_prompt = row.prompt_text])])

\* get_system_prompt writing the default text over a row it finds.
get_system_prompt_resets(r) ==
    /\ pc[r] = "gp_select"
    /\ LET vis == Visible(r, "prm")
           row == [prompt_text |-> DEFAULT_SYSTEM_PROMPT]
       IN  IF PromptId \in DOMAIN vis
           THEN AfterPrompt(r, [sess[r] EXCEPT !.prm = Put(@, PromptId, row)],
                            row)
           ELSE Goto(r, "gp_insert", sess[r])
    /\ UNCHANGED << started, asgSeq, subSeq, call, gen, invoked >>

\* get_system_prompt: the SELECT of the row with id 1.
get_system_prompt(r) ==
    /\ pc[r] = "gp_select"
    /\ LET vis == Visible(r, "prm")
       IN  IF PromptId \in DOMAIN vis
           THEN AfterPrompt(r, sess[r], vis[PromptId])
           ELSE Goto(r, "gp_insert", sess[r])
    /\ UNCHANGED << started, asgSeq, subSeq, call, gen, invoked >>

\* get_system_prompt committing the row it inserts, then selecting it again.
get_system_prompt_insert_commits(r) ==
    /\ pc[r] = "gp_insert"
    /\ ~LockedByOther(r, "prm", PromptId)
    /\ system_prompts' = Put(system_prompts, PromptId,
                             [prompt_text |-> DEFAULT_SYSTEM_PROMPT])
    /\ pc' = [pc EXCEPT ![r] = "gp_select"]
    /\ UNCHANGED << started, assignments, submissions, asgSeq, subSeq, call,
                    sess, result, gen, invoked, answered >>

\* get_system_prompt found no row: INSERT of id 1 with the default text.  The
\* INSERT waits while another session's insert of id 1 is uncommitted and
\* fails on the primary key once a row with id 1 is committed.
get_system_prompt_insert(r) ==
    /\ pc[r] = "gp_insert"
    /\ LET row == [prompt_text |-> DEFAULT_SYSTEM_PROMPT]
       IN  IF PromptId \in DOMAIN system_prompts
           THEN Finish(r, TRUE, "IntegrityError", None)
           ELSE /\ ~LockedByOther(r, "prm", PromptId)
                /\ AfterPrompt(r, [sess[r] EXCEPT
                                     !.prm = Put(@, PromptId, row)], row)
    /\ UNCHANGED << started, asgSeq, subSeq, call, gen, invoked >>

\* update_system_prompt storing the new text as a row of its own.
update_system_prompt_appends(r) ==
    /\ pc[r] = "up_flush"
    /\ Goto(r, "commit",
            [sess[r] EXCEPT !.prm = Put(@, PromptId + 1, Get(sess[r].new)),
                            !.ret = sess[r].new])
    /\ UNCHANGED << started, asgSeq, subSeq, call, gen, invoked >>

\* The flush and refresh that end update_system_prompt.
update_system_prompt(r) ==
    /\ pc[r] = "up_flush"
    /\ FlushObject(r, "prm", "commit")
    /\ UNCHANGED << started, asgSeq, subSeq, call, gen, invoked >>

\* ------------------------------------------------------ question generator

\* The text returned whenever generation does not succeed.
DEFAULT_FALLBACK_QUESTION == << "P", "l", "e", "a", "s", "e" >>

\* settings.OPENROUTER_API_KEY: empty when not configured.
ApiKeys == {"", "sk-key"}

\* The status code of a successful response.
HTTP_OK == 200

\* The characters of a generated text.
Chars == {" ", "q"}

\* Texts of at most MaxTextLen characters.
Texts == UNION {[1..n -> Chars] : n \in 0..MaxTextLen}

RECURSIVE LStrip(_)
LStrip(s) == IF s # << >> /\ Head(s) = " " THEN LStrip(Tail(s)) ELSE s

RECURSIVE RStrip(_)
RStrip(s) ==
    IF s # << >> /\ s[Len(s)] = " " THEN RStrip(SubSeq(s, 1, Len(s) - 1))
                                     ELSE s

\* str.strip(): leading and trailing blanks removed.
Strip(s) == RStrip(LStrip(s))

\* What the remote service can answer with.  A body is not JSON, JSON null,
\* an object without "choices", one with an empty list of choices, one whose
\* first choice has no "message", one whose content is null, or one whose
\* content is a text.
BodyShapes ==
    {"not_json", "null", "no_choices", "empty_choices", "no_message",
     "null_content"}

Bodies ==
    {[shape |-> sh, content |-> << >>] : sh \in BodyShapes}
      \cup {[shape |-> "content", content |-> t] : t \in Texts}

\* What requests.post does: it raises (a timeout, a connection error, any
\* other request error) or returns a response.
RemoteOutcomes ==
    {[kind |-> k, status |-> 0, body |-> [shape |-> "null", content |-> << >>]] :
        k \in {"Timeout", "ConnectionError", "RequestException"}}
      \cup {[kind |-> "Response", status |-> c, body |-> b] :
              c \in {HTTP_OK, 500}, b \in Bodies}

Return(v) == [tag |-> "return", value |-> v, exc |-> ""]

Raise(e) == [tag |-> "raise", value |-> << >>, exc |-> e]

\* The credential check left out.
KeyAbsent_never(key) == FALSE

\* The credential is not set: "if not settings.OPENROUTER_API_KEY".
KeyAbsent(key) == key = ""

\* The status 200 branch without its test that the stripped content is not
\* empty.
OkResponse_unchecked(body) ==
    CASE body.shape = "not_json" -> Raise("JSONDecodeError")
      [] body.shape \in {"null", "no_choices", "empty_choices"} ->
            Return(DEFAULT_FALLBACK_QUESTION)
      [] body.shape = "no_message" -> Raise("KeyError")
      [] body.shape = "null_content" -> Raise("AttributeError")
      [] body.shape = "content" -> Return(Strip(body.content))

\* The branch of the try block for status 200: the body is parsed and the
\* first choice's content, stripped, is returned when it is not empty.
OkResponse(body) ==
    CASE body.shape = "not_json" -> Raise("JSONDecodeError")
      [] body.shape \in {"null", "no_choices", "empty_choices"} ->
            Return(DEFAULT_FALLBACK_QUESTION)
      [] body.shape = "no_message" -> Raise("KeyError")
      [] body.shape = "null_content" -> Raise("AttributeError")
      [] body.shape = "content" ->
            IF Strip(body.content) # << >>
            THEN Return(Strip(body.content))
            ELSE Return(DEFAULT_FALLBACK_QUESTION)

\* The body of the try block, given what requests.post did.
TryBlock(o) ==
    IF o.kind # "Response" THEN Raise(o.kind)
    ELSE IF o.status = HTTP_OK THEN OkResponse(o.body)
    ELSE Return(DEFAULT_FALLBACK_QUESTION)

\* The exception classes that derive from Exception.
ExceptionClasses ==
    {"Timeout", "ConnectionError", "RequestException", "JSONDecodeError",
     "KeyError", "AttributeError", "TypeError"}

\* The except clauses of the try block, in order.
ExceptClauses == << "Timeout", "ConnectionError", "JSONDecodeError", "Exception" >>

Catches(clause, e) ==
    \/ clause = e
    \/ clause = "Exception" /\ e \in ExceptionClasses

\* generate_follow_up_question from its try block on: a caught exception
\* falls through to the fallback, any other propagates.
HandleOutcome(o) ==
    LET t == TryBlock(o)
    IN  IF t.tag = "return" THEN t
        ELSE IF \E i \in 1..Len(ExceptClauses) : Catches(ExceptClauses[i], t.exc)
             THEN Return(DEFAULT_FALLBACK_QUESTION)
             ELSE t

\* A caller invokes the generator with its two parameters.
GenInvoke ==
    /\ gen.pc \in {"off", "returned"}
    /\ \E k \in ApiKeys, c \in Contents,
          p \in CustomPrompts \cup {DEFAULT_SYSTEM_PROMPT} :
         gen' = [NoGen EXCEPT !.pc = "entry", !.key = k, !.content = c,
                              !.system_prompt = p]
    /\ UNCHANGED << started, dbvars, asgSeq, subSeq, pc, call, sess, result,
                    invoked, answered >>

\* The credential check; with a credential the request is sent.
generate_follow_up_question ==
    /\ gen.pc = "entry"
    /\ gen' = IF KeyAbsent(gen.key)
              THEN [gen EXCEPT !.pc = "returned",
                               !.ret = Some(DEFAULT_FALLBACK_QUESTION),
                               !.raised = None]
              ELSE [gen EXCEPT !.pc = "posted", !.sent = @ + 1]
    /\ UNCHANGED << started, dbvars, asgSeq, subSeq, pc, call, sess, result,
                    invoked, answered >>

\* requests.post without a timeout: it waits for as long as the remote service
\* is silent.
requests_post_unbounded ==
    /\ gen.pc = "posted"
    /\ UNCHANGED vars

\* requests.post ends, within its timeout: it raised or it returned.
requests_post ==
    /\ gen.pc = "posted"
    /\ \E o \in RemoteOutcomes :
         gen' = [gen EXCEPT !.pc = "replied", !.outcome = Some(o)]
    /\ UNCHANGED << started, dbvars, asgSeq, subSeq, pc, call, sess, result,
                    invoked, answered >>

\* The generator sending its request again when requests.post raised.
generate_follow_up_question_retries ==
    /\ gen.pc = "replied"
    /\ LET t == HandleOutcome(Get(gen.outcome))
       IN  gen' = IF Get(gen.outcome).kind # "Response"
                  THEN [gen EXCEPT !.pc = "entry", !.outcome = None]
                  ELSE [gen EXCEPT
                          !.pc = "returned",
                          !.ret = IF t.tag = "return" THEN Some(t.value)
                                                      ELSE None,
                          !.raised = IF t.tag = "raise" THEN Some(t.exc)
                                                        ELSE None]
    /\ UNCHANGED << started, dbvars, asgSeq, subSeq, pc, call, sess, result,
                    invoked, answered >>

\* The response is processed and the function returns, or raises.
generate_follow_up_question_return ==
    /\ gen.pc = "replied"
    /\ LET t == HandleOutcome(Get(gen.outcome))
       IN  gen' = [gen EXCEPT
                     !.pc = "returned",
                     !.ret = IF t.tag = "return" THEN Some(t.value) ELSE None,
                     !.raised = IF t.tag = "raise" THEN Some(t.exc) ELSE None]
    /\ UNCHANGED << started, dbvars, asgSeq, subSeq, pc, call, sess, result,
                    invoked, answered >>

\* ------------------------------------------------------- generate_question

\* The parameters of generate_follow_up_question.
GeneratorParameters == {"submission_content", "system_prompt"}

\* The keyword arguments generate_question calls it with.
CallKeywords == {"assignment_prompt", "student_response", "system_prompt"}

\* A call with keywords kw binds to a function whose parameters, none with a
\* default, are ps.
Binds(kw, ps) == kw = ps

\* generate_question without its 404: a submission that is not found is
\* answered with an empty question.
generate_question_no_404(r) ==
    /\ pc[r] = "gq_get"
    /\ IF call[r].id \notin DOMAIN Visible(r, "sub")
       THEN Finish(r, FALSE, "ok", None)
       ELSE Goto(r, "gp_select",
                 [sess[r] EXCEPT
                    !.obj = Some(Visible(r, "sub")[call[r].id]),
                    !.new = Some(Visible(r, "sub")[call[r].id]),
                    !.args = Some([assignment_prompt |-> "",
                                   student_response |-> "",
                                   system_prompt |-> ""])])
    /\ UNCHANGED << started, asgSeq, subSeq, call, gen, invoked >>

\* get_submission: the submission and, through the relationship, its
\* assignment.  A question already stored is returned as it is.
generate_question(r) ==
    /\ pc[r] = "gq_get"
    /\ LET vis == Visible(r, "sub")
           asg == Visible(r, "asg")
           id == call[r].id
       IN  IF id \notin DOMAIN vis
           THEN Finish(r, TRUE, "NotFound", None)
           ELSE IF IsSome(vis[id].generated_question)
                   /\ Get(vis[id].generated_question) # << >>
                THEN Goto(r, "commit",
                          [sess[r] EXCEPT !.ret = vis[id].generated_question])
                ELSE Goto(r, "gp_select",
                          [sess[r] EXCEPT
                             !.obj = Some(vis[id]), !.new = Some(vis[id]),
                             !.args = Some(
                                [assignment_prompt |->
                                    IF IsSome(vis[id].assignment_id)
                                       /\ Get(vis[id].assignment_id) \in DOMAIN asg
                                    THEN asg[Get(vis[id].assignment_id)].prompt_text
                                    ELSE "No specific assignment prompt provided.",
                                 student_response |-> vis[id].original_content,
                                 system_prompt |-> ""])])
    /\ UNCHANGED << started, asgSeq, subSeq, call, gen, invoked >>

\* update_submission_question and the endpoint's return: the question is set
\* on the submission, flushed, and returned.
update_submission_question(r, question) ==
    LET id == call[r].id
        row == [Visible(r, "sub")[id] EXCEPT !.generated_question = Some(question)]
    IN  /\ ~LockedByOther(r, "sub", id)
        /\ Goto(r, "commit", [sess[r] EXCEPT !.sub = Put(@, id, row),
                                            !.obj = Some(row), !.new = Some(row),
                                            !.ret = Some(question)])

\* The call of generate_follow_up_question.  The keywords must bind to the
\* function's parameters; when they do not, the call raises TypeError before
\* the function runs.
generate_question_call(r) ==
    /\ pc[r] = "gq_call"
    /\ invoked' = [invoked EXCEPT ![call[r].id] = IF @ < 2 THEN @ + 1 ELSE @]
    /\ IF Binds(CallKeywords, GeneratorParameters)
       THEN \E k \in ApiKeys, o \in RemoteOutcomes :
              LET t == IF KeyAbsent(k) THEN Return(DEFAULT_FALLBACK_QUESTION)
                                       ELSE HandleOutcome(o)
              IN  IF t.tag = "return"
                  THEN update_submission_question(r, t.value)
                  ELSE Finish(r, TRUE, t.exc, None)
       ELSE Finish(r, TRUE, "TypeError", None)
    /\ UNCHANGED << started, asgSeq, subSeq, call, gen >>

\* ---------------------------------------------------------------- startup

\* on_startup: the tables are created and the default system prompt row is
\* inserted and committed; a failure of that step is logged and the
\* application starts all the same, without the row.
on_startup ==
    /\ ~started
    /\ started' = TRUE
    /\ \E ok \in BOOLEAN :
         system_prompts' =
            IF ok THEN Put(system_prompts, PromptId,
                           [prompt_text |-> DEFAULT_SYSTEM_PROMPT])
                  ELSE system_prompts
    /\ UNCHANGED << assignments, submissions, asgSeq, subSeq, pc, call, sess,
                    result, gen, invoked, answered >>

\* ------------------------------------------------------------------ system

Init ==
    /\ started = FALSE
    /\ assignments = Empty
    /\ submissions = Empty
    /\ system_prompts = Empty
    /\ asgSeq = 0
    /\ subSeq = 0
    /\ pc = [r \in Requests |-> "idle"]
    /\ call = [r \in Requests |-> NoCall]
    /\ sess = [r \in Requests |-> NoSession]
    /\ result = [r \in Requests |-> NoResult]
    /\ gen = NoGen
    /\ invoked = [k \in 1..MaxSub |-> 0]
    /\ answered = [k \in 1..MaxSub |-> None]

BeginAssignment(r) ==
    \/ BeginCreateAssignment(r)
    \/ BeginUpdateAssignment(r)
    \/ BeginSetCurrentAssignment(r)

\* The statements of a create call, those of set_current_assignment among them.
CreateAssignmentStep(r) ==
    \/ create_assignment(r)
    \/ set_current_assignment_demote(r)
    \/ set_current_assignment_demote_row(r)
    \/ set_current_assignment_get(r)
    \/ set_current_assignment_flush(r)

AssignmentStep(r) ==
    \/ CreateAssignmentStep(r)
    \/ update_assignment(r)
    \/ update_assignment_flush(r)

BeginSubmission(r) ==
    \/ BeginSubmitAssignment(r)
    \/ BeginGenerateQuestion(r)
    \/ BeginVerifyResponse(r)

SubmissionStep(r) ==
    \/ submit_assignment(r)
    \/ create_submission(r)
    \/ generate_question(r)
    \/ generate_question_call(r)
    \/ update_submission_response(r)
    \/ update_submission_response_flush(r)

BeginPrompt(r) ==
    \/ BeginReadSystemPrompt(r)
    \/ BeginUpdateSystemPrompt(r)

PromptStep(r) ==
    \/ get_system_prompt(r)
    \/ get_system_prompt_insert(r)
    \/ update_system_prompt(r)

Step(r) == AssignmentStep(r) \/ SubmissionStep(r) \/ PromptStep(r) \/ Commit(r)

\* Calls arrive one after the other, each run to its end before the next.
Next ==
    \/ on_startup
    \/ BeginAssignment("r1") \/ BeginSubmission("r1") \/ BeginPrompt("r1")
    \/ Step("r1")

Spec == Init /\ [][Next]_vars

\* Calls on assignments, one after the other.
NextAssignments ==
    \/ on_startup
    \/ BeginAssignment("r1")
    \/ AssignmentStep("r1")
    \/ Commit("r1")

SpecAssignments == Init /\ [][NextAssignments]_vars

\* Calls on submissions and on the system prompt, one after the other, among
\* calls that create the assignments the submissions are linked to, all with
\* one prompt_text.
NextSubmissions ==
    \/ on_startup
    \/ BeginCreateAssignmentOf("r1", {CHOOSE p \in PromptTexts : TRUE})
    \/ BeginSubmission("r1")
    \/ BeginPrompt("r1")
    \/ CreateAssignmentStep("r1")
    \/ SubmissionStep("r1")
    \/ PromptStep("r1")
    \/ Commit("r1")

SpecSubmissions == Init /\ [][NextSubmissions]_vars

\* Calls on assignments and calls that read the current assignment, one after
\* the other.
NextReadCurrent ==
    \/ NextAssignments
    \/ BeginReadCurrentAssignment("r1")
    \/ read_current_assignment("r1")

SpecReadCurrent == Init /\ [][NextReadCurrent]_vars

\* Create calls run one after the other; while one runs, a second call reads
\* the current assignment or the list of assignments.
NextReaders ==
    \/ on_startup
    \/ BeginCreateAssignmentOf("r1", {CHOOSE p \in PromptTexts : TRUE})
    \/ CreateAssignmentStep("r1")
    \/ /\ ~Idle("r1")
       /\ BeginReadCurrentAssignment("r2") \/ BeginReadAssignments("r2")
    \/ read_current_assignment("r2")
    \/ read_assignments("r2")
    \/ Commit("r1")
    \/ Commit("r2")

SpecReaders == Init /\ [][NextReaders]_vars

\* Calls that create assignments and submissions and calls that list them,
\* one after the other.
NextLists ==
    \/ on_startup
    \/ BeginCreateAssignmentOf("r1", {CHOOSE p \in PromptTexts : TRUE})
    \/ CreateAssignmentStep("r1")
    \/ BeginSubmitAssignmentUpTo("r1", MaxSub + 1)
    \/ submit_assignment("r1")
    \/ create_submission("r1")
    \/ BeginReadAssignments("r1")
    \/ read_assignments("r1")
    \/ BeginReadSubmissions("r1")
    \/ read_submissions("r1")
    \/ Commit("r1")

SpecLists == Init /\ [][NextLists]_vars

\* Every call that writes, one after the other: those of NextSubmissions and
\* set_current calls.
NextCalls ==
    \/ NextSubmissions
    \/ BeginSetCurrentAssignment("r1")

SpecCalls == Init /\ [][NextCalls]_vars

\* A call can take the second session only while the first is in use, so
\* that two calls overlapping in time are told apart by their sessions.
Overlapping(r) == r = "r1" \/ ~Idle("r1")

\* Calls on submissions and on the system prompt, up to two at a time, their
\* statements interleaved.
NextConc ==
    \/ on_startup
    \/ \E r \in Requests :
         \/ Overlapping(r) /\ (BeginSubmission(r) \/ BeginPrompt(r))
         \/ SubmissionStep(r) \/ PromptStep(r) \/ Commit(r)

SpecConc == Init /\ [][NextConc]_vars

\* Assignments are created one call at a time, then set_current calls run up
\* to two at a time, their statements interleaved.
NextSetCurrent ==
    \/ on_startup
    \/ /\ Idle("r2")
       /\ BeginCreateAssignmentOf("r1", {CHOOSE p \in PromptTexts : TRUE})
    \/ BeginSetCurrentAssignment("r1")
    \/ /\ ~Idle("r1")
       /\ call["r1"].op = "set_current_assignment"
       /\ BeginSetCurrentAssignment("r2")
    \/ \E r \in Requests :
         CreateAssignmentStep(r) \/ Commit(r) \/ deadlock_detected(r)

SpecSetCurrent == Init /\ [][NextSetCurrent]_vars

\* Create calls, up to two at a time, their statements interleaved.
NextCreates ==
    \/ on_startup
    \/ \E r \in Requests :
         \/ /\ Overlapping(r)
            /\ BeginCreateAssignmentOf(r, {CHOOSE p \in PromptTexts : TRUE})
         \/ CreateAssignmentStep(r)
         \/ Commit(r)

SpecCreates == Init /\ [][NextCreates]_vars

\* The statements of submit_assignment and generate_question calls.
QuestionStep(r) ==
    \/ submit_assignment(r)
    \/ create_submission(r)
    \/ generate_question(r)
    \/ get_system_prompt(r)
    \/ get_system_prompt_insert(r)
    \/ generate_question_call(r)
    \/ Commit(r)

\* The statements of the generator.
GeneratorStep ==
    \/ generate_follow_up_question
    \/ requests_post
    \/ generate_follow_up_question_return

\* submit_assignment and generate_question calls, one after the other, and
\* invocations of the generator.
NextQuestion ==
    \/ on_startup
    \/ BeginSubmitAssignment("r1")
    \/ BeginGenerateQuestion("r1")
    \/ QuestionStep("r1")
    \/ GenInvoke
    \/ GeneratorStep

\* The store answers every statement, so a call that has a statement to run
\* runs it; requests.post is given timeout=30.0, so it ends; the generator's
\* own statements run.
SpecQuestionLive ==
    /\ Init
    /\ [][NextQuestion]_vars
    /\ WF_vars(QuestionStep("r1"))
    /\ WF_vars(GeneratorStep)

\* The generator, invoked on its own.
NextGen ==
    \/ GenInvoke
    \/ generate_follow_up_question
    \/ requests_post
    \/ generate_follow_up_question_return

SpecGen == Init /\ [][NextGen]_vars

\* ------------------------------------------------------------------ claims

\* The step that ends call r.
Finishing(r) == pc[r] # "done" /\ pc'[r] = "done"

\* The assignments stored with is_current = true.
CurrentIds == {k \in DOMAIN assignments : assignments[k].is_current = TRUE}

\* C1: with the calls run one after the other, at most one stored assignment
\* has is_current = true after every create, update and set_current call.
C1_AtMostOneCurrent == Cardinality(CurrentIds) <= 1

\* A call that made its assignment current is about to commit the demotion of
\* the assignment that is stored as current.
C1_Witness ==
    /\ pc["r1"] = "commit"
    /\ \E k \in CurrentIds :
         /\ k # sess["r1"].id
         /\ k \in DOMAIN sess["r1"].asg
         /\ sess["r1"].asg[k].is_current = FALSE
         /\ Visible("r1", "asg")[sess["r1"].id].is_current = TRUE

\* C2: a set_current call whose id matches no assignment ends with NotFound,
\* and the stored assignments are after the call what they were before it.
C2_SetCurrentNotFoundChangesNothing ==
    [][(/\ Finishing("r1")
        /\ call["r1"].op = "set_current_assignment"
        /\ call["r1"].id \notin DOMAIN assignments)
       => (/\ result'["r1"].status = "NotFound"
           /\ assignments' = assignments)]_vars

\* A set_current call for an unknown id has ended with NotFound and the
\* assignment that was current is current still.
C2_Witness ==
    /\ pc["r1"] = "done"
    /\ call["r1"].op = "set_current_assignment"
    /\ call["r1"].id \notin DOMAIN assignments
    /\ result["r1"].status = "NotFound"
    /\ CurrentIds # {}

\* C3: a generate_question call for an existing submission ends well whatever
\* the remote service does: it answers a non-empty question, which is the
\* submission's stored generated_question.  Only a submission that is not
\* found makes it fail.
C3_GenerateQuestionSucceeds ==
    \A r \in Requests :
       (/\ pc[r] = "done"
        /\ call[r].op = "generate_question"
        /\ result[r].status # "NotFound")
       => (/\ result[r].status = "ok"
           /\ IsSome(result[r].value)
           /\ Get(result[r].value) # << >>
           /\ call[r].id \in DOMAIN submissions
           /\ submissions[call[r].id].generated_question = result[r].value)

\* C4: when generate_question is called for an existing submission after an
\* earlier generate_question call for it has ended, both calls answer the
\* same question, the later call does not call the generator, and the stored
\* submissions are not rewritten.
C4_GenerateQuestionIdempotent ==
    [][(/\ Finishing("r1")
        /\ call["r1"].op = "generate_question"
        /\ call["r1"].id \in DOMAIN submissions
        /\ IsSome(answered[call["r1"].id])
        /\ Get(answered[call["r1"].id]).status # "NotFound")
       => (/\ Get(answered[call["r1"].id]).status = "ok"
           /\ result'["r1"].status = "ok"
           /\ result'["r1"].value = Get(answered[call["r1"].id]).value
           /\ invoked' = invoked
           /\ submissions' = submissions)]_vars

\* C5: with generate_question calls overlapping in time, a stored
\* generated_question never changes once it is set, the generator is called
\* at most once for a submission, and every call for an existing submission
\* answers the stored question.
C5_QuestionSetAtMostOnce ==
    [][/\ \A k \in DOMAIN submissions :
            IsSome(submissions[k].generated_question)
            => submissions'[k].generated_question
                  = submissions[k].generated_question
       /\ \A k \in 1..MaxSub : invoked'[k] <= 1
       /\ \A r \in Requests :
            (/\ Finishing(r)
             /\ call[r].op = "generate_question"
             /\ call[r].id \in DOMAIN submissions)
            => (/\ result'[r].status = "ok"
                /\ IsSome(result'[r].value)
                /\ result'[r].value
                      = submissions'[call[r].id].generated_question)]_vars

\* The generated text is empty: it holds nothing but blanks.
Blank(t) == \A i \in 1..Len(t) : t[i] = " "

\* The remote call did not produce a usable text.
RemoteFailed(o) ==
    \/ o.kind # "Response"
    \/ o.status # HTTP_OK
    \/ o.body.shape # "content"
    \/ Blank(o.body.content)

\* C6: whatever requests.post does, the generator raises nothing; it returns
\* the fallback when the remote call failed in any way, and the generated
\* text, not empty and stripped, when it did not.
C6_GeneratorNeverRaises ==
    (gen.pc = "returned" /\ IsSome(gen.outcome))
    => (/\ gen.raised = None
        /\ IsSome(gen.ret)
        /\ IF RemoteFailed(Get(gen.outcome))
           THEN Get(gen.ret) = DEFAULT_FALLBACK_QUESTION
           ELSE /\ Get(gen.ret) # << >>
                /\ Get(gen.ret) = Strip(Get(gen.outcome).body.content))

\* The remote call timed out and the generator returned the fallback.
C6_Witness ==
    /\ gen.pc = "returned"
    /\ IsSome(gen.outcome)
    /\ Get(gen.outcome).kind = "Timeout"
    /\ gen.ret = Some(DEFAULT_FALLBACK_QUESTION)
    /\ gen.raised = None

\* C7: without a credential the generator sends no request and returns the
\* fallback.
C7_NoKeyNoRequest ==
    gen.key = ""
    => (/\ gen.sent = 0
        /\ gen.pc \notin {"posted", "replied"}
        /\ gen.pc = "returned"
           => (gen.ret = Some(DEFAULT_FALLBACK_QUESTION) /\ gen.raised = None))

\* The generator has returned from an invocation without a credential.
C7_Witness == gen.pc = "returned" /\ gen.key = "" /\ gen.sent = 0

\* C8: a record_response call for an id that matches no submission ends with
\* NotFound and writes nothing; for an existing submission it ends well, in
\* every state of the submission, and the stored student_response is then
\* the text sent.
C8_RecordResponse ==
    [][(Finishing("r1") /\ call["r1"].op = "verify_response")
       => IF call["r1"].id \notin DOMAIN submissions
          THEN /\ result'["r1"].status = "NotFound"
               /\ UNCHANGED dbvars
          ELSE /\ result'["r1"].status = "ok"
               /\ submissions'[call["r1"].id].student_response
                     = call["r1"].text]_vars

\* A record_response call is about to commit a response over a different one
\* that is stored, for a submission without a generated question.
C8_Witness ==
    /\ pc["r1"] = "commit"
    /\ call["r1"].op = "verify_response"
    /\ call["r1"].id \in DOMAIN submissions
    /\ IsSome(submissions[call["r1"].id].student_response)
    /\ submissions[call["r1"].id].generated_question = None
    /\ sess["r1"].sub[call["r1"].id].student_response = call["r1"].text
    /\ submissions[call["r1"].id].student_response # call["r1"].text

\* C9: a generate_question call for an id that matches no submission ends
\* with NotFound, without having called the generator and without a change
\* to any stored record.
C9_GenerateQuestionNotFound ==
    [][(/\ Finishing("r1")
        /\ call["r1"].op = "generate_question"
        /\ call["r1"].id \notin DOMAIN submissions)
       => (/\ result'["r1"].status = "NotFound"
           /\ invoked' = invoked
           /\ UNCHANGED dbvars)]_vars

\* A generate_question call for an unknown id has ended with NotFound, and
\* no system prompt row has been created.
C9_Witness ==
    /\ pc["r1"] = "done"
    /\ call["r1"].op = "generate_question"
    /\ call["r1"].id \notin DOMAIN submissions
    /\ result["r1"].status = "NotFound"
    /\ system_prompts = Empty
    /\ invoked[call["r1"].id] = 0

\* C10: every call that reads the system prompt, also one that overlaps
\* another while no row is stored, ends well with the row, and the one row
\* stored has the fixed id.
C10_ConcurrentFirstReads ==
    \A r \in Requests :
       (pc[r] = "done" /\ call[r].op = "read_system_prompt")
       => (/\ result[r].status = "ok"
           /\ IsSome(result[r].value)
           /\ DOMAIN system_prompts = {PromptId})

\* C11: two set_current calls overlapping in time, on assignments that are
\* stored, never leave two assignments stored with is_current = true.
C11_ConcurrentSetCurrent == Cardinality(CurrentIds) <= 1

\* A set_current call has made its assignment current and has ended; the call
\* that overlapped it, for another assignment, is about to commit that one as
\* current and the first as not current.
C11_Witness ==
    /\ pc["r1"] = "done"
    /\ call["r1"].op = "set_current_assignment"
    /\ result["r1"].status = "ok"
    /\ CurrentIds = {call["r1"].id}
    /\ pc["r2"] = "commit"
    /\ call["r2"].id # call["r1"].id
    /\ call["r1"].id \in DOMAIN sess["r2"].asg
    /\ sess["r2"].asg[call["r1"].id].is_current = FALSE
    /\ call["r2"].id \in DOMAIN sess["r2"].asg
    /\ sess["r2"].asg[call["r2"].id].is_current = TRUE

\* C12: the writes of a call are one transaction.  The stored records change
\* only as a call ends; they do not change when it ends in failure, whatever
\* it wrote before; and when it ends well all its writes are stored.
C12_UnitOfWork ==
    [][/\ (started /\ ~Finishing("r1")) => UNCHANGED dbvars
       /\ (Finishing("r1") /\ result'["r1"].status # "ok") => UNCHANGED dbvars
       /\ (Finishing("r1") /\ result'["r1"].status = "ok")
            => /\ assignments' = Overlay(assignments, sess["r1"].asg)
               /\ submissions' = Overlay(submissions, sess["r1"].sub)
               /\ system_prompts' = Overlay(system_prompts, sess["r1"].prm)]_vars

\* A generate_question call for a stored submission has failed at the
\* generator call, after get_system_prompt had inserted the row in its
\* session: no row is stored.
C12_Witness ==
    /\ pc["r1"] = "done"
    /\ call["r1"].op = "generate_question"
    /\ call["r1"].id \in DOMAIN submissions
    /\ result["r1"].status = "TypeError"
    /\ system_prompts = Empty

\* C13: when a create call with is_current = true or a set_current call ends
\* well, its assignment is the one stored with is_current = true and every
\* other has is_current = false; a call that reads the current assignment
\* answers the one stored with is_current = true, and not found when none is.
C13_GetCurrent ==
    [][/\ (/\ Finishing("r1")
           /\ result'["r1"].status = "ok"
           /\ \/ call["r1"].op = "set_current_assignment"
              \/ call["r1"].op = "create_assignment"
                    /\ call["r1"].cur = Some(TRUE))
          => (/\ CurrentIds' = {sess["r1"].id}
              /\ \A k \in DOMAIN assignments' \ {sess["r1"].id} :
                    assignments'[k].is_current = FALSE)
       /\ (Finishing("r1") /\ call["r1"].op = "read_current_assignment")
          => IF CurrentIds = {}
             THEN result'["r1"].status = "NotFound"
             ELSE /\ result'["r1"].status = "ok"
                  /\ CurrentIds = {Get(result'["r1"].value).id}
                  /\ Get(result'["r1"].value).is_current = TRUE]_vars

\* Two assignments are stored, the first not current, and a call that read
\* the current assignment has answered the second.
C13_Witness ==
    /\ pc["r1"] = "done"
    /\ call["r1"].op = "read_current_assignment"
    /\ result["r1"].status = "ok"
    /\ DOMAIN assignments = {1, 2}
    /\ Get(result["r1"].value).id = 2
    /\ assignments[1].is_current = FALSE

\* C14: a submission sent without assignment_id is stored with the id of the
\* assignment that is current as it is created, and with none when no
\* assignment is current; one sent with an assignment_id is stored with that
\* id, whichever assignment is current; a new submission has no
\* generated_question and no student_response.
C14_SubmissionLinking ==
    [][/\ (pc["r1"] # "sa_current" /\ pc'["r1"] = "sa_current")
            => call'["r1"].aid = None
       /\ pc["r1"] = "sa_current"
            => call'["r1"].aid =
                  IF CurrentIds = {} THEN None
                  ELSE Some(CHOOSE k \in CurrentIds : TRUE)
       /\ (call["r1"].op = "submit_assignment"
             /\ pc["r1"] \in {"sa_insert", "commit"})
            => call'["r1"].aid = call["r1"].aid
       /\ (/\ Finishing("r1")
           /\ call["r1"].op = "submit_assignment"
           /\ result'["r1"].status = "ok")
            => /\ sess["r1"].id \notin DOMAIN submissions
               /\ submissions' =
                     Put(submissions, sess["r1"].id,
                         [original_content |-> Get(call["r1"].text),
                          assignment_id |-> call["r1"].aid,
                          generated_question |-> None,
                          student_response |-> None])]_vars

\* A submission sent with the id of the first assignment is stored with it
\* while the second assignment is the current one.
C14_Witness ==
    /\ pc["r1"] = "done"
    /\ call["r1"].op = "submit_assignment"
    /\ result["r1"].status = "ok"
    /\ \E k \in DOMAIN submissions : submissions[k].assignment_id = Some(1)
    /\ CurrentIds = {2}

\* C15: an update call on a stored assignment changes what it is given and
\* nothing else.  The assignment's prompt_text and is_current become the
\* values given and stay as they were when not given; every other assignment
\* keeps its prompt_text, and keeps its is_current unless is_current = true
\* was given, which makes it false.
C15_UpdateFrame ==
    [][(/\ Finishing("r1")
        /\ call["r1"].op = "update_assignment"
        /\ call["r1"].id \in DOMAIN assignments)
       => LET id == call["r1"].id IN
          /\ result'["r1"].status = "ok"
          /\ DOMAIN assignments' = DOMAIN assignments
          /\ assignments'[id].prompt_text =
                IF IsSome(call["r1"].text) THEN Get(call["r1"].text)
                                           ELSE assignments[id].prompt_text
          /\ assignments'[id].is_current =
                IF IsSome(call["r1"].cur) THEN Get(call["r1"].cur)
                                          ELSE assignments[id].is_current
          /\ \A k \in DOMAIN assignments \ {id} :
                /\ assignments'[k].prompt_text = assignments[k].prompt_text
                /\ assignments'[k].is_current =
                      IF call["r1"].cur = Some(TRUE) THEN FALSE
                      ELSE assignments[k].is_current]_vars

\* An update call given only is_current = false, for the current assignment
\* of two, is about to commit: no assignment will be current.
C15_Witness ==
    /\ pc["r1"] = "commit"
    /\ call["r1"].op = "update_assignment"
    /\ call["r1"].text = None
    /\ call["r1"].cur = Some(FALSE)
    /\ DOMAIN assignments = {1, 2}
    /\ CurrentIds = {call["r1"].id}
    /\ sess["r1"].asg[call["r1"].id].is_current = FALSE
    /\ DOMAIN sess["r1"].asg = {call["r1"].id}

CurrentIn(l) == {i \in 1..Len(l) : l[i].is_current = TRUE}

\* C17: a call that reads while a create call with is_current = true runs
\* never sees two assignments with is_current = true: the query for the
\* current assignment matches at most one, and a list holds at most one.
C17_ReaderSeesOneCurrent ==
    /\ pc["r2"] = "gc_select"
         => Cardinality(get_current_assignment("r2")) <= 1
    /\ (pc["r2"] \in {"commit", "done"} /\ call["r2"].op = "read_assignments")
         => \A v \in {sess["r2"].ret, result["r2"].value} :
               IsSome(v) => Cardinality(CurrentIn(Get(v))) <= 1

\* A create call with is_current = true has inserted its assignment and
\* demoted the current one, and has not committed; the call reading the list
\* meanwhile has answered the stored assignments, one of them current.
C17_Witness ==
    /\ call["r1"].op = "create_assignment"
    /\ call["r1"].cur = Some(TRUE)
    /\ pc["r1"] = "commit"
    /\ \E k \in CurrentIds : /\ k \in DOMAIN sess["r1"].asg
                              /\ sess["r1"].asg[k].is_current = FALSE
    /\ pc["r2"] = "done"
    /\ call["r2"].op = "read_assignments"
    /\ Len(Get(result["r2"].value)) = Cardinality(DOMAIN assignments)
    /\ Cardinality(CurrentIn(Get(result["r2"].value))) = 1

\* C18: through reads and updates of the system prompt and generate_question
\* calls, no system prompt row is stored but the one with the fixed id; once
\* a read or an update has ended well that row is stored; and a row is
\* created with the default text, which only an update call changes.
C18_SingletonPrompt ==
    [][/\ DOMAIN system_prompts' \subseteq {PromptId}
       /\ (/\ Finishing("r1")
           /\ call["r1"].op \in {"read_system_prompt", "update_system_prompt"}
           /\ result'["r1"].status = "ok")
            => DOMAIN system_prompts' = {PromptId}
       /\ (/\ system_prompts' # system_prompts
           /\ ~(Finishing("r1") /\ call["r1"].op = "update_system_prompt"))
            => /\ system_prompts = Empty
               /\ system_prompts'[PromptId].prompt_text
                     = DEFAULT_SYSTEM_PROMPT]_vars

\* No row is stored and a call that reads the system prompt is about to
\* commit the row it has created.
C18_Witness ==
    /\ pc["r1"] = "commit"
    /\ call["r1"].op = "read_system_prompt"
    /\ system_prompts = Empty
    /\ DOMAIN sess["r1"].prm = {PromptId}
    /\ sess["r1"].prm[PromptId].prompt_text = DEFAULT_SYSTEM_PROMPT

\* C19: an update call that ends well leaves its text stored, whether or not
\* a row was stored before, and a read call answers the stored text and
\* leaves it as it is; with no row stored it answers the default text.
C19_PromptRoundTrip ==
    [][/\ (/\ Finishing("r1")
           /\ call["r1"].op = "update_system_prompt"
           /\ result'["r1"].status = "ok")
            => /\ system_prompts'[PromptId].prompt_text = Get(call["r1"].text)
               /\ Get(result'["r1"].value).prompt_text = Get(call["r1"].text)
       /\ (Finishing("r1") /\ call["r1"].op = "read_system_prompt")
            => /\ result'["r1"].status = "ok"
               /\ Get(result'["r1"].value).prompt_text =
                     IF PromptId \in DOMAIN system_prompts
                     THEN system_prompts[PromptId].prompt_text
                     ELSE DEFAULT_SYSTEM_PROMPT
               /\ PromptId \in DOMAIN system_prompts
                     => system_prompts' = system_prompts]_vars

\* A read call has answered a text that an update call stored.
C19_Witness ==
    /\ pc["r1"] = "done"
    /\ call["r1"].op = "read_system_prompt"
    /\ result["r1"].status = "ok"
    /\ Get(result["r1"].value).prompt_text \in CustomPrompts
    /\ system_prompts[PromptId].prompt_text
          = Get(result["r1"].value).prompt_text

\* C20: an invocation of the generator sends at most one request; when the
\* request timed out, failed, or was answered with a status other than 200,
\* the generator has returned the fallback with that one request sent.
C20_SingleRequest ==
    /\ gen.sent <= 1
    /\ (/\ gen.pc = "returned"
        /\ IsSome(gen.outcome)
        /\ \/ Get(gen.outcome).kind # "Response"
           \/ Get(gen.outcome).status # HTTP_OK)
         => (gen.sent = 1 /\ gen.ret = Some(DEFAULT_FALLBACK_QUESTION))

\* The remote service answered with a status other than 200 and the
\* generator has returned the fallback, one request sent.
C20_Witness ==
    /\ gen.pc = "returned"
    /\ IsSome(gen.outcome)
    /\ Get(gen.outcome).kind = "Response"
    /\ Get(gen.outcome).status # HTTP_OK
    /\ gen.sent = 1
    /\ gen.ret = Some(DEFAULT_FALLBACK_QUESTION)

\* C21: every generate_question call ends, with an answer or an error, and
\* every invocation of the generator returns: a remote service that stays
\* silent does not keep either waiting for ever.
C21_GenerateQuestionEnds ==
    /\ (call["r1"].op = "generate_question" /\ ~Idle("r1"))
          ~> (call["r1"].op = "generate_question" /\ pc["r1"] = "done")
    /\ (gen.pc \in {"entry", "posted", "replied"}) ~> (gen.pc = "returned")

\* A generate_question call for a stored submission has ended, and an
\* invocation of the generator whose request timed out has returned.
C21_Witness ==
    /\ pc["r1"] = "done"
    /\ call["r1"].op = "generate_question"
    /\ call["r1"].id \in DOMAIN submissions
    /\ gen.pc = "returned"
    /\ IsSome(gen.outcome)
    /\ Get(gen.outcome).kind = "Timeout"

\* List l is the window (skip, limit) of the records of table tbl, newest
\* first: its ids decrease, each of its records is the stored one, and it
\* holds the stored records that have more than skip and at most skip + limit
\* records at least as new as themselves.
IsWindow(l, tbl, skip, limit) ==
    /\ \A i \in 1..Len(l) - 1 : l[i].id > l[i + 1].id
    /\ Len(l) <= limit
    /\ \A i \in 1..Len(l) :
         /\ l[i].id \in DOMAIN tbl
         /\ \A f \in DOMAIN tbl[l[i].id] : l[i][f] = tbl[l[i].id][f]
    /\ \A k \in DOMAIN tbl :
         LET rank == Cardinality({j \in DOMAIN tbl : j >= k})
         IN  (\E i \in 1..Len(l) : l[i].id = k)
                <=> (skip < rank /\ rank <= skip + limit)

\* C22: a call that lists the assignments, or the submissions, answers the
\* stored records newest first, without the first skip of them and at most
\* limit of them, none twice and none from outside that window.
C22_ListWindow ==
    (pc["r1"] = "done" /\ result["r1"].status = "ok")
    => /\ call["r1"].op = "read_assignments"
            => IsWindow(Get(result["r1"].value), assignments,
                        call["r1"].skip, call["r1"].limit)
       /\ call["r1"].op = "read_submissions"
            => IsWindow(Get(result["r1"].value), submissions,
                        call["r1"].skip, call["r1"].limit)

\* With more than one submission stored, a call that lists the submissions
\* from the second on has answered one that is not the newest.
C22_Witness ==
    /\ pc["r1"] = "done"
    /\ call["r1"].op = "read_submissions"
    /\ call["r1"].skip = 1
    /\ Cardinality(DOMAIN submissions) > 1
    /\ Len(Get(result["r1"].value)) = 1
    /\ \E k \in DOMAIN submissions : k > Get(result["r1"].value)[1].id

\* C23: the step of a generate_question call that calls the generator, for a
\* submission without a stored question, runs the generator on the values
\* the call handed it (the assignment prompt, the submission's original
\* content, the stored system prompt text) and leaves what the generator
\* returned both written to the submission's generated_question and as the
\* call's answer.
C23_GeneratedQuestionPersisted ==
    [][\A r \in Requests :
         (pc[r] = "gq_call" /\ pc'[r] # "gq_call")
         => (/\ IsSome(sess[r].args)
             /\ Binds(DOMAIN Get(sess[r].args), GeneratorParameters)
             /\ pc'[r] = "commit"
             /\ IsSome(sess'[r].ret)
             /\ call[r].id \in DOMAIN sess'[r].sub
             /\ sess'[r].sub[call[r].id].generated_question = sess'[r].ret)]_vars

\* C26: a generate_question call that has called the generator for an
\* existing submission, the generator degrading to its fallback question or
\* not, ends with a question stored as the submission's generated_question
\* and answers it; the generator, and so the remote service, is not called
\* for that submission a second time.
C26_FallbackStored ==
    [][\A r \in Requests :
         (/\ Finishing(r)
          /\ call[r].op = "generate_question"
          /\ call[r].id \in DOMAIN submissions
          /\ invoked'[call[r].id] > 0)
         => (/\ invoked'[call[r].id] = 1
             /\ IsSome(submissions'[call[r].id].generated_question)
             /\ result'[r].status = "ok"
             /\ result'[r].value
                   = submissions'[call[r].id].generated_question)]_vars

\* C24: with create calls overlapping in time, two of them asking for
\* is_current = true among them, no two stored assignments have
\* is_current = true.
C24_ConcurrentCreates ==
    \A a, b \in DOMAIN assignments :
       (assignments[a].is_current /\ assignments[b].is_current) => a = b

\* C25: an update call whose id matches no assignment ends with NotFound
\* without its session having written anything, and the stored assignments
\* are after the call what they were before it: none is demoted, whether or
\* not is_current = true was given.
C25_UpdateNotFound ==
    [][(/\ Finishing("r1")
        /\ call["r1"].op = "update_assignment"
        /\ call["r1"].id \notin DOMAIN assignments)
       => (/\ result'["r1"].status = "NotFound"
           /\ sess["r1"].asg = Empty
           /\ sess["r1"].sub = Empty
           /\ sess["r1"].prm = Empty
           /\ assignments' = assignments
           /\ submissions' = submissions
           /\ system_prompts' = system_prompts)]_vars

\* An update call giving is_current = true for an unknown id has ended with
\* NotFound, and the assignment that was current is current still.
C25_Witness ==
    /\ pc["r1"] = "done"
    /\ call["r1"].op = "update_assignment"
    /\ call["r1"].id \notin DOMAIN assignments
    /\ call["r1"].cur = Some(TRUE)
    /\ result["r1"].status = "NotFound"
    /\ CurrentIds # {}

\* C27: the assignment_id of every stored submission is absent or the id of
\* a stored assignment; a submit call that names an assignment that is not
\* stored ends with the store's integrity error, and the stored records are
\* after the call what they were before it.
C27_AssignmentIdRefers ==
    /\ [](\A k \in DOMAIN submissions :
            \/ submissions[k].assignment_id = None
            \/ Get(submissions[k].assignment_id) \in DOMAIN assignments)
    /\ [][(/\ Finishing("r1")
           /\ call["r1"].op = "submit_assignment"
           /\ IsSome(call["r1"].aid)
           /\ Get(call["r1"].aid) \notin DOMAIN assignments)
          => (/\ result'["r1"].status = "IntegrityError"
              /\ submissions' = submissions
              /\ assignments' = assignments
              /\ system_prompts' = system_prompts)]_vars

\* With one assignment stored, a submit call naming another id has ended with
\* the integrity error and no submission is stored.
C27_Witness ==
    /\ pc["r1"] = "done"
    /\ call["r1"].op = "submit_assignment"
    /\ DOMAIN assignments = {1}
    /\ call["r1"].aid = Some(2)
    /\ result["r1"].status = "IntegrityError"
    /\ submissions = Empty
====
